---- MODULE Spec2Model ----
(***************************************************************************)
(* A model of the tradebot Limiter (src/limiter/limiter.go): the run loop  *)
(* of one limiter against an exchange product, its durable state in the    *)
(* key-value store, and the process restarts that reload it.               *)
(*                                                                         *)
(* Decimal sizes are counted in whole lots; prices are small integers      *)
(* around the cancel threshold of the point.  The exchange is the          *)
(* environment: it fills orders lot by lot, completes cancel requests      *)
(* some time after it accepted them, and any call to it may fail.          *)
(***************************************************************************)
EXTENDS Integers, Sequences, FiniteSets, TLC

\* ---------------------------------------------------------------- bounds
MaxSize == 2        \* largest point.size, size limit and base minimum size
MaxOrders == 2      \* orders the exchange accepts before it only refuses
MaxDirty == 1       \* the dirty counter saturates here (the code tests > 0)
MaxLiveSize == 3    \* largest size in the runs without failures
MaxLiveOrders == 4  \* orders the exchange accepts in the runs without failures
PointCancel == 2    \* point.cancel; tickers range over PointCancel-1 .. +1

NoOrder == 0        \* the empty exchange.OrderID ""

Sides == {"BUY", "SELL"}
Sizes == 1..MaxSize
Tickers == (PointCancel - 1)..(PointCancel + 1)
OrderIDs == 1..MaxOrders
NoTicker == PointCancel - 2   \* no ticker was handled in the step

VARIABLES
  side,            \* point.Side(): fixed per limiter
  pointSize,       \* point.Size
  baseMinSize,     \* product.BaseMinSize()
  holdOpt,         \* v.holdOpt
  sizeLimitOpt,    \* the value v.sizeLimit() returns
  idgenOffset,     \* v.idgen.Offset()
  clientServerMap, \* v.clientServerMap
  orderMap,        \* v.orderMap: OrderID -> [filled, done, cid]
  pc,              \* "idle" | "loop" | "returned": where Run is
  activeOrderID,   \* Run's local activeOrderID
  dirty,           \* Run's local dirty
  lastSizeLimit,   \* Run's local lastSizeLimit
  ctxCanceled,     \* ctx.Done() is closed
  exOrders,        \* the exchange's orders, numbered by OrderID: sequence of
                   \* [side, price, size, filled, status, cid]
  store,           \* the durable LimiterState under the limiter's key
  evt,             \* observed: the case of Run the step just taken ran
  ret,             \* observed: what Run returned in the step just taken
  calls,           \* observed: the calls Run made in the step just taken
  ticker,          \* observed: the ticker Run handled in the step just taken
  limiterV,        \* a limiter with all its fields, as Save encodes them
  kvStore,         \* the database: key -> gobs.LimiterState
  loadedV,         \* observed: what limiter.Load returned in the step just taken
  buys,            \* Looper.buys: the buy limiters, each [uid, pending]
  sells,           \* Looper.sells: the sell limiters, each [uid, pending]
  looperPc,        \* where Looper.Run is: "idle" | "top" | "buyWait" |
                   \* "buySave" | "sellSave" | "returned"
  nbuys,           \* Looper.Run's local nbuys
  nsells,          \* Looper.Run's local nsells
  gateP,           \* addNewBuy's local p
  looperCtx,       \* the Looper's ctx.Done() is closed
  looperDb,        \* the durable LooperState and the limiters it names
  runtimeLock,     \* v.runtimeLock: the caller holding it, or NoCaller
  callers,         \* the concurrent callers of Run, Refresh and Fix: each
                   \* [op, at], at "out" | "blocked" | "in"
  summary,         \* a trader.Summary
  metric           \* observed: the derived metric just computed, [name, value]

vars == <<side, pointSize, baseMinSize, holdOpt, sizeLimitOpt, idgenOffset,
          clientServerMap, orderMap, pc, activeOrderID, dirty, lastSizeLimit,
          ctxCanceled, exOrders, store, evt, ret, calls, ticker,
          limiterV, kvStore, loadedV,
          buys, sells, looperPc, nbuys, nsells, gateP, looperCtx, looperDb,
          runtimeLock, callers, summary, metric>>

\* The state of the other parts of the program, which a step of Run or of
\* the exchange leaves alone.
saveLoadVars == <<limiterV, kvStore, loadedV>>
looperVars == <<buys, sells, looperPc, nbuys, nsells, gateP, looperCtx, looperDb>>
lockVars == <<runtimeLock, callers>>
summaryVars == <<summary, metric>>
elsewhere == <<saveLoadVars, looperVars, lockVars, summaryVars>>

config == <<side, pointSize, baseMinSize>>
options == <<holdOpt, sizeLimitOpt>>

\* The variables of the run loop.
runState ==
  <<config, options, idgenOffset, clientServerMap, orderMap, pc, activeOrderID,
    dirty, lastSizeLimit, ctxCanceled, exOrders, store>>

\* What the steps of one part of the program leave alone.
outsideSaveLoad == <<runState, looperVars, lockVars, summaryVars>>
outsideLooper == <<runState, saveLoadVars, lockVars, summaryVars>>
outsideLock == <<runState, saveLoadVars, looperVars, summaryVars>>
outsideSummary == <<runState, saveLoadVars, looperVars, lockVars>>

\* ------------------------------------------------------------- the point
pointCancel == PointCancel
pointPrice == IF side = "BUY" THEN PointCancel - 1 ELSE PointCancel + 1

IsSell == side = "SELL"
IsBuy == side = "BUY"

isTickerSideReady(t) == IF IsSell THEN t > pointCancel ELSE t < pointCancel

\* ------------------------------------------------------------ order map
RECURSIVE SumFilled(_, _)
SumFilled(om, ids) ==
  IF ids = {} THEN 0
  ELSE LET id == CHOOSE x \in ids : TRUE
       IN om[id].filled + SumFilled(om, ids \ {id})

Pending(om) == pointSize - SumFilled(om, DOMAIN om)

PendingSize(om) == Pending(om)

sizeLimit == sizeLimitOpt

compactOrderMap(om) ==
  [id \in {x \in DOMAIN om : ~(om[x].done /\ om[x].filled = 0)} |-> om[id]]

\* An updateOrderMap without the lookup at its head: it stores every order.
updateOrderMapStoresAll(om, id, order) ==
  [x \in DOMAIN om \cup {id} |-> IF x = id THEN order ELSE om[x]]

updateOrderMap(om, id, order) ==
  IF id \notin DOMAIN om THEN om ELSE [om EXCEPT ![id] = order]

EmptyMap == [id \in {} |-> 0]

\* ------------------------------------------------------------- exchange
\* Product.Get: the exchange's view of one order.
Get(ex, id) ==
  [filled |-> ex[id].filled, done |-> ex[id].status = "done", cid |-> ex[id].cid]

\* Product.Cancel accepted: an open order is withdrawn some time later.
exCancel(ex, id) ==
  IF ex[id].status = "open" THEN [ex EXCEPT ![id].status = "canceling"] ELSE ex

\* Product.LimitBuy / LimitSell accepted: the exchange opens a new order.
exCreate(ex, sd, price, size, cid) ==
  Append(ex, [side |-> sd, price |-> price, size |-> size, filled |-> 0,
              status |-> "open", cid |-> cid])

\* ---------------------------------------------------------------- idgen
NextID(off) == off + 1
RevertID(off) == off - 1

\* ------------------------------------------------------------ Save, Load
\* Limiter.Save: compacts the in-memory map, then encodes and writes.
SaveState(off, csm, om) ==
  [offset |-> off, clientServerMap |-> csm, orderMap |-> compactOrderMap(om)]

Inc(d) == IF d < MaxDirty THEN d + 1 ELSE d

\* ------------------------------------------------- Save and Load in full
\* A limiter with every field Save encodes.  A uid or a database key is the
\* sequence of the segments of its path: "/wallers/a" is <<"wallers", "a">>.
DefaultKeyspace == "limiters"

Uids == {<<DefaultKeyspace, "a">>, <<"wallers", "a">>, <<"a">>}

\* strings.HasPrefix(key, DefaultKeyspace)
HasKeyspacePrefix(key) == Len(key) > 1 /\ key[1] = DefaultKeyspace

\* strings.TrimPrefix(uid, "/wallers")
TrimWallers(uid) == IF Len(uid) > 0 /\ uid[1] = "wallers" THEN Tail(uid) ELSE uid

\* The key Save writes under.
SaveKey(uid) ==
  IF HasKeyspacePrefix(uid) THEN uid ELSE <<DefaultKeyspace>> \o TrimWallers(uid)

\* A Load that joins the keyspace and the uid without trimming "/wallers".
LoadKeyUntrimmed(uid) ==
  IF HasKeyspacePrefix(uid) THEN uid ELSE <<DefaultKeyspace>> \o uid

\* The key Load reads first.
LoadKey(uid) ==
  IF HasKeyspacePrefix(uid) THEN uid ELSE <<DefaultKeyspace>> \o TrimWallers(uid)

\* limiter.New
NewLimiter(uid, pt) ==
  [uid |-> uid, productID |-> "BTC-USD", exchangeName |-> "coinbase",
   point |-> pt, seed |-> uid, offset |-> 0,
   clientServerMap |-> EmptyMap, orderMap |-> EmptyMap]

\* The order create stores: only OrderID, ClientOrderID and Side are set.
NewOrder(id, cid, sd) ==
  [OrderID |-> id, ClientOrderID |-> cid, CreateTime |-> 0, Side |-> sd,
   Status |-> "", Fee |-> 0, FilledSize |-> 0, FilledPrice |-> 0,
   Done |-> FALSE, DoneReason |-> ""]

\* Orders as the exchange reports them: partly filled, canceled unfilled,
\* and filled.
Reports(o) ==
  {[o EXCEPT !.CreateTime = 7, !.Status = "OPEN", !.Fee = 1, !.FilledSize = 2,
             !.FilledPrice = 3],
   [o EXCEPT !.CreateTime = 7, !.Status = "CANCELLED", !.Done = TRUE,
             !.DoneReason = "user"],
   [o EXCEPT !.CreateTime = 7, !.Status = "FILLED", !.Fee = 4, !.FilledSize = 5,
             !.FilledPrice = 6, !.Done = TRUE, !.DoneReason = "filled"]}

\* Limiter.compactOrderMap on the full orders.
compactOrders(om) ==
  [id \in {x \in DOMAIN om : ~(om[x].Done /\ om[x].FilledSize = 0)} |-> om[id]]

\* The gobs.Order Save builds from an order.
gobsOrder(o) ==
  [ServerOrderID |-> o.OrderID, ClientOrderID |-> o.ClientOrderID,
   CreateTime |-> o.CreateTime, Side |-> o.Side, Status |-> o.Status,
   FilledFee |-> o.Fee, FilledSize |-> o.FilledSize,
   FilledPrice |-> o.FilledPrice, Done |-> o.Done, DoneReason |-> o.DoneReason]

\* The gobs.LimiterStateV2 Save builds, after compactOrderMap.
EncodeV2(v) ==
  LET om == compactOrders(v.orderMap)
  IN [ProductID |-> v.productID, ExchangeName |-> v.exchangeName,
      ClientIDSeed |-> v.seed, ClientIDOffset |-> v.offset,
      TradePoint |-> [Size |-> v.point.Size, Price |-> v.point.Price,
                      Cancel |-> v.point.Cancel],
      ClientServerIDMap |-> v.clientServerMap,
      ServerIDOrderMap |-> [k \in DOMAIN om |-> gobsOrder(om[k])]]

\* The exchange.Order Load builds from a gobs.Order.
exchangeOrder(vv) ==
  [OrderID |-> vv.ServerOrderID, ClientOrderID |-> vv.ClientOrderID,
   CreateTime |-> vv.CreateTime, Side |-> vv.Side, Status |-> vv.Status,
   Fee |-> vv.FilledFee, FilledSize |-> vv.FilledSize,
   FilledPrice |-> vv.FilledPrice, Done |-> vv.Done,
   DoneReason |-> vv.DoneReason]

\* The limiter Load builds from a decoded (V2) state.
DecodeV2(uid, gv) ==
  [uid |-> uid, productID |-> gv.ProductID, exchangeName |-> gv.ExchangeName,
   point |-> [Size |-> gv.TradePoint.Size, Price |-> gv.TradePoint.Price,
              Cancel |-> gv.TradePoint.Cancel],
   seed |-> IF Len(gv.ClientIDSeed) > 0 THEN gv.ClientIDSeed ELSE uid,
   offset |-> gv.ClientIDOffset,
   clientServerMap |-> gv.ClientServerIDMap,
   orderMap |-> [kk \in DOMAIN gv.ServerIDOrderMap |->
                   exchangeOrder(gv.ServerIDOrderMap[kk])]]

\* No limiter: what Load returns with its error.
NoLimiter == [uid |-> << >>]

\* limiter.Load: the rewritten key first, the uid itself when that is absent.
LoadV(uid, db) ==
  IF LoadKey(uid) \in DOMAIN db THEN DecodeV2(uid, db[LoadKey(uid)])
  ELSE IF uid \in DOMAIN db THEN DecodeV2(uid, db[uid])
  ELSE NoLimiter

\* ----------------------------------------------------------------- Init
\* A new limiter for a point whose size is at least the product minimum.
InitOn(sizes) ==
  /\ side \in Sides
  /\ pointSize \in sizes
  /\ baseMinSize \in {m \in sizes : m <= pointSize}
  /\ holdOpt = FALSE
  /\ sizeLimitOpt \in sizes
  /\ idgenOffset = 0
  /\ clientServerMap = EmptyMap
  /\ orderMap = EmptyMap
  /\ pc = "idle"
  /\ activeOrderID = NoOrder
  /\ dirty = 0
  /\ lastSizeLimit = 0
  /\ ctxCanceled = FALSE
  /\ exOrders = << >>
  /\ store = SaveState(0, EmptyMap, EmptyMap)
  /\ evt = "none"
  /\ ret = "none"
  /\ calls = << >>
  /\ ticker = NoTicker

\* The parts of the program outside the run loop, at rest.
SaveLoadIdle ==
  /\ limiterV = NoLimiter
  /\ kvStore = EmptyMap
  /\ loadedV = NoLimiter

\* looper.New: no limiters, nothing saved; Run is at position p.
NoLooperState == [buys |-> << >>, sells |-> << >>, saved |-> FALSE]
LooperAt(p) ==
  /\ buys = << >>
  /\ sells = << >>
  /\ looperPc = p
  /\ nbuys = 0
  /\ nsells = 0
  /\ gateP = NoTicker
  /\ looperCtx = FALSE
  /\ looperDb = NoLooperState

\* No caller of Run, Refresh or Fix; the lock is free.
MaxCallers == 3
Callers == 1..MaxCallers
NoCaller == 0
LockIdle ==
  /\ runtimeLock = NoCaller
  /\ callers = [c \in Callers |-> [op |-> "none", at |-> "out"]]

\* new(Summary): every amount zero, no time period; no metric computed.
NoMetric == [name |-> "none", value |-> [num |-> 0, den |-> 1]]
ZeroSummary ==
  [TimePeriod |-> [isZero |-> TRUE, hours |-> 0], Budget |-> 0,
   SoldFees |-> 0, SoldValue |-> 0, BoughtFees |-> 0, BoughtValue |-> 0,
   UnsoldFees |-> 0, UnsoldValue |-> 0, OversoldFees |-> 0, OversoldValue |-> 0]
SummaryIdle ==
  /\ summary = ZeroSummary
  /\ metric = NoMetric

ElsewhereIdle == SaveLoadIdle /\ LooperAt("idle") /\ LockIdle /\ SummaryIdle

Init == InitOn(Sizes) /\ ElsewhereIdle

\* ------------------------------------------------- Run's working state
\* The fields a step of Run reads and writes, threaded through the
\* statements of the handler in program order.
Here ==
  [active |-> activeOrderID, dirty |-> dirty, last |-> lastSizeLimit,
   ex |-> exOrders, om |-> orderMap, off |-> idgenOffset, st |-> store,
   ret |-> "none", calls |-> << >>]

Called(s, c) == [s EXCEPT !.calls = Append(@, c)]

\* Limiter.cancel, with what its call sites do on success: dirty++ and
\* activeOrderID = "" (the ctx.Done call site returns instead of clearing it).
cancel(s, ok) ==
  IF ok
  THEN [Called(s, "Cancel") EXCEPT !.ex = exCancel(s.ex, s.active),
                                   !.dirty = Inc(s.dirty),
                                   !.active = NoOrder]
  ELSE [Called(s, "Cancel") EXCEPT !.ret = "err_cancel"]

\* The size of the order Limiter.create places.
createSize(pending, limit, min) ==
  LET size == IF pending > limit THEN limit ELSE pending
  IN IF size < min THEN min ELSE size

\* A create that keeps the offset it took when the exchange refuses.
createKeepsID(s, ok) ==
  LET offset == s.off
      off1 == NextID(s.off)
      size == createSize(PendingSize(s.om), sizeLimit, baseMinSize)
      orderID == Len(s.ex) + 1
      s1 == Called(s, IF IsSell THEN "LimitSell" ELSE "LimitBuy")
  IN IF ~ok
     THEN [s1 EXCEPT !.off = off1, !.ret = "err_create"]
     ELSE [s1 EXCEPT !.off = off1,
                     !.ex = exCreate(s.ex, side, pointPrice, size, offset),
                     !.om = [id \in DOMAIN s.om \cup {orderID} |->
                               IF id = orderID
                               THEN [filled |-> 0, done |-> FALSE, cid |-> offset]
                               ELSE s.om[id]],
                     !.dirty = Inc(s.dirty),
                     !.active = orderID]

\* Limiter.create, with what its call sites do on success (dirty++,
\* activeOrderID = id).  The exchange numbers its orders 1, 2, ...
create(s, ok) ==
  LET offset == s.off
      off1 == NextID(s.off)
      size == createSize(PendingSize(s.om), sizeLimit, baseMinSize)
      orderID == Len(s.ex) + 1
      s1 == Called(s, IF IsSell THEN "LimitSell" ELSE "LimitBuy")
  IN IF ~ok
     THEN [s1 EXCEPT !.off = RevertID(off1), !.ret = "err_create"]
     ELSE [s1 EXCEPT !.off = off1,
                     !.ex = exCreate(s.ex, side, pointPrice, size, offset),
                     !.om = [id \in DOMAIN s.om \cup {orderID} |->
                               IF id = orderID
                               THEN [filled |-> 0, done |-> FALSE, cid |-> offset]
                               ELSE s.om[id]],
                     !.dirty = Inc(s.dirty),
                     !.active = orderID]

\* Limiter.Save under kv.WithReadWriter: the in-memory map is compacted even
\* when the write fails.
Save(s, ok) ==
  LET s1 == [Called(s, "Save") EXCEPT !.om = compactOrderMap(s.om)]
  IN IF ok THEN [s1 EXCEPT !.st = SaveState(s.off, clientServerMap, s.om)]
     ELSE s1

\* limiter.Load: the limiter the durable state decodes to.
Load(st) ==
  [offset |-> st.offset, clientServerMap |-> st.clientServerMap,
   orderMap |-> st.orderMap]

Live(om) == {id \in DOMAIN om : ~om[id].done}

\* Limiter.fetchOrderMap: the orders in `fetched` are refreshed before a Get
\* fails (none fails when fetched = Live(om)).
fetchOrderMap(s, fetched) ==
  LET live == Live(s.om)
      n == Cardinality(fetched) + (IF fetched = live THEN 0 ELSE 1)
      gets == [i \in 1..n |-> "Get"]
      s1 == [s EXCEPT !.calls = @ \o gets,
                      !.om = [id \in DOMAIN s.om |->
                                IF id \in fetched THEN Get(s.ex, id) ELSE s.om[id]]]
  IN IF fetched = live THEN s1 ELSE [s1 EXCEPT !.ret = "err_fetch"]

\* The outcomes of a reconcile when calls fail as `oks` allows.
Fetches(om, oks) == IF FALSE \in oks THEN SUBSET Live(om) ELSE {Live(om)}

\* The state a step of Run leaves: Run's locals are gone once it returned.
Leave(e, t, s) ==
  /\ pc' = IF s.ret = "none" THEN "loop" ELSE "returned"
  /\ activeOrderID' = IF s.ret = "none" THEN s.active ELSE NoOrder
  /\ dirty' = IF s.ret = "none" THEN s.dirty ELSE 0
  /\ lastSizeLimit' = IF s.ret = "none" THEN s.last ELSE 0
  /\ exOrders' = s.ex
  /\ orderMap' = s.om
  /\ idgenOffset' = s.off
  /\ store' = s.st
  /\ evt' = e
  /\ ret' = s.ret
  /\ calls' = s.calls
  /\ ticker' = t
  /\ UNCHANGED <<elsewhere, config, options, clientServerMap>>

\* -------------------------------------------------------------- Run start
\* Run up to the loop: reconcile, pending check, live check, subscriptions.
\* (The product of the runtime is the limiter's: Run returns os.ErrInvalid
\* before anything else otherwise.)
\* A start that tolerates two live orders.
RunStartStepTwoLive(fetched, saveOk) ==
  LET s1 == fetchOrderMap(Here, fetched)
      nupdated == Cardinality(fetched)
      live == Live(s1.om)
  IN IF s1.ret # "none" THEN s1
     ELSE IF PendingSize(s1.om) = 0
     THEN [(IF nupdated # 0 THEN Save(s1, saveOk) ELSE s1) EXCEPT !.ret = "nil"]
     ELSE IF Cardinality(live) > 2 THEN [s1 EXCEPT !.ret = "err_live"]
     ELSE [Called(Called(s1, "TickerCh"), "OrderUpdatesCh") EXCEPT
             !.active = IF live = {} THEN NoOrder ELSE CHOOSE id \in live : TRUE,
             !.dirty = 0,
             !.last = sizeLimit]

RunStartStep(fetched, saveOk) ==
  LET s1 == fetchOrderMap(Here, fetched)
      nupdated == Cardinality(fetched)
      live == Live(s1.om)
  IN IF s1.ret # "none" THEN s1
     ELSE IF PendingSize(s1.om) = 0
     THEN [(IF nupdated # 0 THEN Save(s1, saveOk) ELSE s1) EXCEPT !.ret = "nil"]
     ELSE IF Cardinality(live) > 1 THEN [s1 EXCEPT !.ret = "err_live"]
     ELSE [Called(Called(s1, "TickerCh"), "OrderUpdatesCh") EXCEPT
             !.active = IF live = {} THEN NoOrder ELSE CHOOSE id \in live : TRUE,
             !.dirty = 0,
             !.last = sizeLimit]

RunStartOn(oks) ==
  /\ pc \in {"idle", "returned"}
  /\ ~ctxCanceled
  /\ \E fetched \in Fetches(orderMap, oks), saveOk \in oks :
       Leave("start", NoTicker, RunStartStep(fetched, saveOk))
  /\ UNCHANGED ctxCanceled

RunStart == RunStartOn(BOOLEAN)

\* ------------------------------------------------------------ loop events
\* case <-ctx.Done()
CtxDoneStep(cancelOk, saveOk) ==
  LET s1 == IF activeOrderID # NoOrder THEN cancel(Here, cancelOk) ELSE Here
  IN IF s1.ret # "none" THEN s1
     ELSE [Save(s1, saveOk) EXCEPT !.ret = "cause"]

\* ctx is canceled while Run waits in the select, which takes the ctx.Done
\* case.  Nothing else in the loop reads ctx (the flush and the completion
\* pass it on to calls that may fail in any case), so a cancellation matters
\* from the step that observes it.
CtxDone ==
  /\ pc = "loop"
  /\ ~ctxCanceled
  /\ \E cancelOk \in BOOLEAN, saveOk \in BOOLEAN :
       Leave("ctx", NoTicker, CtxDoneStep(cancelOk, saveOk))
  /\ ctxCanceled' = TRUE

\* A flush that resets the counter whether or not the save succeeded.
FlushStepResets(saveOk) ==
  IF dirty > 0
  THEN [Save(Here, saveOk) EXCEPT !.dirty = 0]
  ELSE Here

\* case <-flushCh
FlushStep(saveOk) ==
  IF dirty > 0
  THEN IF saveOk THEN [Save(Here, TRUE) EXCEPT !.dirty = 0] ELSE Save(Here, FALSE)
  ELSE Here

Flush ==
  /\ pc = "loop"
  /\ \E saveOk \in BOOLEAN : Leave("flush", NoTicker, FlushStep(saveOk))
  /\ UNCHANGED ctxCanceled

\* The loop condition fails: final reconcile and save, then return nil.
Complete(s, fetched, saveOk) ==
  LET s1 == fetchOrderMap(s, fetched)
  IN IF s1.ret # "none" THEN s1
     ELSE IF saveOk THEN [Save(s1, TRUE) EXCEPT !.ret = "nil"]
     ELSE [Save(s1, FALSE) EXCEPT !.ret = "err_save"]

\* case order := <-orderUpdatesCh
OrderUpdateStep(id, order) ==
  [Here EXCEPT !.dirty = Inc(dirty),
               !.om = updateOrderMap(orderMap, id, order),
               !.active = IF order.done /\ id = activeOrderID
                          THEN NoOrder ELSE activeOrderID]

\* An update of the exchange's order `id` arrives, and the loop condition is
\* evaluated after it.
OrderUpdateOf(id, oks) ==
  /\ pc = "loop"
  /\ id \in 1..Len(exOrders)
  /\ LET s1 == OrderUpdateStep(id, Get(exOrders, id))
     IN IF PendingSize(s1.om) # 0 THEN Leave("update", NoTicker, s1)
        ELSE \E fetched \in Fetches(s1.om, oks), saveOk \in oks :
               Leave("update", NoTicker, Complete(s1, fetched, saveOk))
  /\ UNCHANGED ctxCanceled

OrderUpdate == \E id \in OrderIDs : OrderUpdateOf(id, BOOLEAN)

\* A sell side that creates at the threshold as well as above it.
sellTickerAtThreshold(s1, t, cancelOk, createOk) ==
  LET s2 == IF t <= pointCancel /\ s1.active # NoOrder
            THEN cancel(s1, cancelOk) ELSE s1
  IN IF s2.ret # "none" THEN s2
     ELSE IF t >= pointCancel /\ s2.active = NoOrder
     THEN create(s2, createOk) ELSE s2

\* The ticker case for a sell point: if v.IsSell() { ... }
sellTicker(s1, t, cancelOk, createOk) ==
  LET s2 == IF t <= pointCancel /\ s1.active # NoOrder
            THEN cancel(s1, cancelOk) ELSE s1
  IN IF s2.ret # "none" THEN s2
     ELSE IF t > pointCancel /\ s2.active = NoOrder
     THEN create(s2, createOk) ELSE s2

\* A buy side that keeps its order while the ticker is at the threshold.
buyTickerStrict(s1, t, cancelOk, createOk) ==
  LET s2 == IF t > pointCancel /\ s1.active # NoOrder
            THEN cancel(s1, cancelOk) ELSE s1
  IN IF s2.ret # "none" THEN s2
     ELSE IF t < pointCancel /\ s2.active = NoOrder
     THEN create(s2, createOk) ELSE s2

\* The ticker case for a buy point: if v.IsBuy() { ... }
buyTicker(s1, t, cancelOk, createOk) ==
  LET s2 == IF t >= pointCancel /\ s1.active # NoOrder
            THEN cancel(s1, cancelOk) ELSE s1
  IN IF s2.ret # "none" THEN s2
     ELSE IF t < pointCancel /\ s2.active = NoOrder
     THEN create(s2, createOk) ELSE s2

\* The hold option is set: cancel the active order if any, create nothing.
holdTickerKeepsOrder(s, cancelOk) == s
holdTicker(s, cancelOk) ==
  IF s.active # NoOrder THEN cancel(s, cancelOk) ELSE s

\* A size-limit branch that spares an order known to be partly filled.
sizeLimitTickerSparesFilled(s, x, cancelOk) ==
  IF s.active # NoOrder /\ s.last # x /\ s.om[s.active].filled = 0
  THEN [cancel(s, cancelOk) EXCEPT !.last = x]
  ELSE s

\* The size-limit option changed: cancel the active order, record the limit.
sizeLimitTicker(s, x, cancelOk) ==
  IF s.active # NoOrder /\ s.last # x
  THEN [cancel(s, cancelOk) EXCEPT !.last = x]
  ELSE s

\* case ticker := <-tickerCh
TickerStep(t, cancelOk, createOk) ==
  IF holdOpt
  THEN holdTicker(Here, cancelOk)
  ELSE
  LET x == sizeLimit
      s1 == sizeLimitTicker(Here, x, cancelOk)
  IN IF s1.ret # "none" THEN s1
     ELSE IF s1.active = NoOrder /\ ~isTickerSideReady(t) THEN s1
     ELSE IF IsSell THEN sellTicker(s1, t, cancelOk, createOk)
     ELSE IF IsBuy THEN buyTicker(s1, t, cancelOk, createOk)
     ELSE s1

\* A ticker in `ts` arrives.  The exchange accepts `cap` orders in all.
TickerOn(ts, oks, cap) ==
  /\ pc = "loop"
  /\ \E t \in ts, cancelOk \in oks, createOk \in oks :
       LET s == TickerStep(t, cancelOk, createOk)
       IN Len(s.ex) <= cap /\ Leave("ticker", t, s)
  /\ UNCHANGED ctxCanceled

Ticker == TickerOn(Tickers, BOOLEAN, MaxOrders)

\* ------------------------------------------------------------ environment
\* evt, ret, calls and ticker observe one step of Run; a step of the
\* environment shows nothing of Run.
Unobserved ==
  evt' = "none" /\ ret' = "none" /\ calls' = << >> /\ ticker' = NoTicker

\* The caller cancels ctx while Run is not running.
CancelCtx ==
  /\ pc # "loop"
  /\ ~ctxCanceled
  /\ ctxCanceled' = TRUE
  /\ Unobserved
  /\ UNCHANGED <<elsewhere, config, options, idgenOffset, clientServerMap, orderMap, pc,
                 activeOrderID, dirty, lastSizeLimit, exOrders, store>>

\* The hold option is set or cleared while the job runs.
SetHold ==
  /\ pc = "loop"
  /\ holdOpt' = ~holdOpt
  /\ Unobserved
  /\ UNCHANGED <<elsewhere, config, sizeLimitOpt, idgenOffset, clientServerMap, orderMap,
                 pc, activeOrderID, dirty, lastSizeLimit, ctxCanceled, exOrders,
                 store>>

\* The size-limit option is changed while the job runs.
SetSizeLimit ==
  /\ pc = "loop"
  /\ \E s \in Sizes \ {sizeLimitOpt} : sizeLimitOpt' = s
  /\ Unobserved
  /\ UNCHANGED <<elsewhere, config, holdOpt, idgenOffset, clientServerMap, orderMap, pc,
                 activeOrderID, dirty, lastSizeLimit, ctxCanceled, exOrders,
                 store>>

\* The exchange fills one more lot of an order that is not done.
ExFill ==
  /\ \E id \in 1..Len(exOrders) :
       /\ exOrders[id].status # "done"
       /\ exOrders[id].filled < exOrders[id].size
       /\ exOrders' = [exOrders EXCEPT
            ![id].filled = @ + 1,
            ![id].status = IF exOrders[id].filled + 1 = exOrders[id].size
                           THEN "done" ELSE @]
  /\ Unobserved
  /\ UNCHANGED <<elsewhere, config, options, idgenOffset, clientServerMap, orderMap, pc,
                 activeOrderID, dirty, lastSizeLimit, ctxCanceled, store>>

\* The exchange completes a cancel request.
ExCancelDone ==
  /\ \E id \in 1..Len(exOrders) :
       /\ exOrders[id].status = "canceling"
       /\ exOrders' = [exOrders EXCEPT ![id].status = "done"]
  /\ Unobserved
  /\ UNCHANGED <<elsewhere, config, options, idgenOffset, clientServerMap, orderMap, pc,
                 activeOrderID, dirty, lastSizeLimit, ctxCanceled, store>>

\* The process ended after ctx was canceled; a new one loads the limiter.
Restart ==
  /\ pc # "loop"
  /\ ctxCanceled
  /\ idgenOffset' = Load(store).offset
  /\ clientServerMap' = Load(store).clientServerMap
  /\ orderMap' = Load(store).orderMap
  /\ pc' = "idle"
  /\ ctxCanceled' = FALSE
  /\ Unobserved
  /\ UNCHANGED <<elsewhere, config, options, activeOrderID, dirty, lastSizeLimit, exOrders,
                 store>>

\* One limiter job under fixed options: its runs, the cancellations that
\* stop them, their retries, and the restarts of the process.
Next ==
  \/ RunStart
  \/ CtxDone
  \/ Flush
  \/ OrderUpdate
  \/ Ticker
  \/ CancelCtx
  \/ ExFill
  \/ ExCancelDone
  \/ Restart

Spec == Init /\ [][Next]_vars

\* The runs of one limiter job while its hold and size-limit options change.
OptNext ==
  \/ RunStart
  \/ OrderUpdate
  \/ Ticker
  \/ SetHold
  \/ SetSizeLimit
  \/ ExFill
  \/ ExCancelDone

OptSpec == Init /\ [][OptNext]_vars

\* One run in which no call fails, ctx is never canceled, hold stays unset,
\* every ticker is on the ready side, and the exchange goes on filling what
\* it holds and reporting every order.
LiveInit == InitOn(1..MaxLiveSize) /\ ElsewhereIdle

LiveRunStart == pc = "idle" /\ RunStartOn({TRUE})

LiveTicker ==
  TickerOn({t \in Tickers : isTickerSideReady(t)}, {TRUE}, MaxLiveOrders)

LiveOrderUpdate(id) == OrderUpdateOf(id, {TRUE})

LiveNext ==
  \/ LiveRunStart
  \/ LiveTicker
  \/ \E id \in 1..MaxLiveOrders : LiveOrderUpdate(id)
  \/ ExFill

LiveSpec ==
  /\ LiveInit
  /\ [][LiveNext]_vars
  /\ WF_vars(LiveRunStart)
  /\ WF_vars(LiveTicker)
  /\ \A id \in 1..MaxLiveOrders : WF_vars(LiveOrderUpdate(id))
  /\ WF_vars(ExFill)

\* ------------------------------------------- saving and loading a limiter
\* The run loop at rest.
RunIdle == InitOn({1}) /\ side = "BUY"

\* What a step outside the run loop shows: the operation and its result.
Observed(e, r) == evt' = e /\ ret' = r /\ calls' = << >> /\ ticker' = NoTicker

Points ==
  {[Size |-> 1, Price |-> 2, Cancel |-> 3], [Size |-> 6, Price |-> 5, Cancel |-> 4]}

\* A new limiter, over a database that is empty or holds an older state of
\* the limiter under its uid as it is (the legacy layout).
SaveLoadInit ==
  /\ RunIdle
  /\ \E uid \in Uids, pt \in Points :
       /\ limiterV = NewLimiter(uid, pt)
       /\ kvStore \in {EmptyMap, uid :> EncodeV2(NewLimiter(uid, pt))}
  /\ loadedV = NoLimiter
  /\ LooperAt("idle")
  /\ LockIdle
  /\ SummaryIdle

\* create stores a new order and takes an offset.
VCreate ==
  /\ limiterV.offset < MaxOrders
  /\ \E id \in OrderIDs \ DOMAIN limiterV.orderMap :
       limiterV' =
         [limiterV EXCEPT
            !.offset = NextID(@),
            !.orderMap = [k \in DOMAIN @ \cup {id} |->
                            IF k = id
                            THEN NewOrder(id, limiterV.offset,
                                          IF limiterV.point.Cancel > limiterV.point.Price
                                          THEN "BUY" ELSE "SELL")
                            ELSE @[k]]]
  /\ Observed("create", "nil")
  /\ loadedV' = NoLimiter
  /\ UNCHANGED <<outsideSaveLoad, kvStore>>

\* An order update or a reconcile replaces an order by the exchange's report.
VUpdate ==
  /\ \E id \in DOMAIN limiterV.orderMap :
       \E o \in Reports(limiterV.orderMap[id]) :
         limiterV' = [limiterV EXCEPT !.orderMap[id] = o]
  /\ Observed("update", "nil")
  /\ loadedV' = NoLimiter
  /\ UNCHANGED <<outsideSaveLoad, kvStore>>

\* Limiter.Save: compacts, encodes and writes; the write may fail.
VSave ==
  /\ \E ok \in BOOLEAN :
       /\ kvStore' = IF ok
                     THEN [k \in DOMAIN kvStore \cup {SaveKey(limiterV.uid)} |->
                             IF k = SaveKey(limiterV.uid) THEN EncodeV2(limiterV)
                             ELSE kvStore[k]]
                     ELSE kvStore
       /\ Observed("save", IF ok THEN "nil" ELSE "err_save")
  /\ limiterV' = [limiterV EXCEPT !.orderMap = compactOrders(@)]
  /\ loadedV' = NoLimiter
  /\ UNCHANGED outsideSaveLoad

\* limiter.Load with the limiter's uid.
VLoad ==
  /\ loadedV' = LoadV(limiterV.uid, kvStore)
  /\ Observed("load", IF LoadV(limiterV.uid, kvStore) = NoLimiter
                      THEN "err_load" ELSE "nil")
  /\ UNCHANGED <<outsideSaveLoad, limiterV, kvStore>>

SaveLoadNext ==
  \/ VCreate
  \/ VUpdate
  \/ VSave
  \/ VLoad

SaveLoadSpec == SaveLoadInit /\ [][SaveLoadNext]_vars

\* ------------------------------------------------------------ the looper
MaxLoops == 2       \* buy limiters a looper appends in a run of the model
LooperSize == 2     \* size of the looper's buy and sell points
MaxOverfill == 1    \* how far below zero a sub-limiter's pending can be taken

buyPoint == [Size |-> LooperSize, Price |-> PointCancel, Cancel |-> PointCancel + 1]
sellPoint == [Size |-> LooperSize, Price |-> PointCancel + 1, Cancel |-> PointCancel]

\* limiter.New with uid <key>/buy-<n> or <key>/sell-<n>: nothing filled.
SubLimiter(kind, n, pt) == [uid |-> <<kind, n>>, pending |-> pt.Size]

Last(seq) == seq[Len(seq)]
Front(seq) == SubSeq(seq, 1, Len(seq) - 1)

\* What a sub-limiter's Run can do to its pending size and return: pending
\* never grows, an over-filled order takes it below zero, Run returns nil
\* only when nothing is left pending and the cause only when ctx was
\* canceled meanwhile.
RunOutcomes(p, canceled) ==
  {<<q, r>> \in ((0 - MaxOverfill)..p) \X {"nil", "err", "cause"} :
     /\ r = "nil" => q <= 0
     /\ r = "cause" => canceled}

\* A loop body that appends the sell before looking at the last buy.
LooperBranchSellEarly(bs, ss) ==
  IF Len(bs) = 0 THEN "addNewBuy"
  ELSE IF Len(ss) < Len(bs) THEN "addNewSell"
  ELSE IF Last(bs).pending # 0 THEN "runBuy"
  ELSE IF Last(ss).pending # 0 THEN "runSell"
  ELSE "addNewBuy"

LooperBranchSellAlways(bs, ss) ==
  IF Len(bs) = 0 THEN "addNewBuy"
  ELSE IF Last(bs).pending # 0 THEN "runBuy"
  ELSE IF Len(ss) <= Len(bs) THEN "addNewSell"
  ELSE IF Last(ss).pending # 0 THEN "runSell"
  ELSE "addNewBuy"

\* The case of Looper.Run's loop body for the lists bs and ss.
LooperBranch(bs, ss) ==
  IF Len(bs) = 0 THEN "addNewBuy"
  ELSE IF Last(bs).pending # 0 THEN "runBuy"
  ELSE IF Len(ss) < Len(bs) THEN "addNewSell"
  ELSE IF Last(ss).pending # 0 THEN "runSell"
  ELSE "addNewBuy"

\* addNewBuy's loop ends when p is above the buy point's price.
GateOpenAtPrice(p) == ~(p < buyPoint.Price)
GateOpen(p) == ~(p <= buyPoint.Price)

\* The list after its save failed: the appended limiter is taken off.
KeepAppended(list) == list
RollBack(list) == Front(list)

\* Where Run goes after a call of its loop body returned err: the body only
\* logs, sleeps and continues.
ReturnOnError(err) == IF err = "nil" THEN "top" ELSE "returned"
Continue(err) == "top"

\* Looper.Save: every limiter and the list of their uids, in one transaction.
LooperState(bs, ss) == [buys |-> bs, sells |-> ss, saved |-> TRUE]

LooperInit == RunIdle /\ SaveLoadIdle /\ LockIdle /\ SummaryIdle /\ LooperAt("top")

LooperObserved(e, r, t) == evt' = e /\ ret' = r /\ calls' = << >> /\ ticker' = t

\* The loop condition fails: Run returns the cause.
LooperReturn ==
  /\ looperPc = "top"
  /\ looperCtx
  /\ looperPc' = "returned"
  /\ LooperObserved("Looper.Run", "cause", NoTicker)
  /\ UNCHANGED <<outsideLooper, buys, sells, nbuys, nsells, gateP,
                 looperCtx, looperDb>>

\* The loop body calls addNewBuy, which starts waiting for tickers.
AddNewBuyCall ==
  /\ looperPc = "top"
  /\ ~looperCtx
  /\ LooperBranch(buys, sells) = "addNewBuy"
  /\ Len(buys) < MaxLoops
  /\ nbuys' = Len(buys)
  /\ nsells' = Len(sells)
  /\ gateP' = buyPoint.Price
  /\ looperPc' = "buyWait"
  /\ LooperObserved("call", "none", NoTicker)
  /\ UNCHANGED <<outsideLooper, buys, sells, looperCtx, looperDb>>

\* addNewBuy receives a ticker; above the price it appends a new limiter.
AddNewBuyTicker ==
  /\ looperPc = "buyWait"
  /\ \E t \in Tickers :
       /\ gateP' = t
       /\ IF GateOpen(t)
          THEN /\ buys' = Append(buys, SubLimiter("buy", Len(buys), buyPoint))
               /\ looperPc' = "buySave"
          ELSE UNCHANGED <<buys, looperPc>>
       /\ LooperObserved("ticker", "none", t)
  /\ UNCHANGED <<outsideLooper, sells, nbuys, nsells, looperCtx, looperDb>>

\* addNewBuy sees ctx.Done() while waiting and returns the cause.
AddNewBuyCtxDone ==
  /\ looperPc = "buyWait"
  /\ looperCtx
  /\ looperPc' = Continue("cause")
  /\ LooperObserved("addNewBuy", "cause", NoTicker)
  /\ UNCHANGED <<outsideLooper, buys, sells, nbuys, nsells, gateP,
                 looperCtx, looperDb>>

\* addNewBuy saves; a failed save takes the new limiter off again.
AddNewBuySave ==
  /\ looperPc = "buySave"
  /\ \E ok \in BOOLEAN :
       /\ buys' = IF ok THEN buys ELSE RollBack(buys)
       /\ looperDb' = IF ok THEN LooperState(buys, sells) ELSE looperDb
       /\ looperPc' = Continue(IF ok THEN "nil" ELSE "err")
       /\ LooperObserved("addNewBuy", IF ok THEN "nil" ELSE "err", NoTicker)
  /\ UNCHANGED <<outsideLooper, sells, nbuys, nsells, gateP, looperCtx>>

\* The loop body calls addNewSell, which appends at once.
AddNewSellCall ==
  /\ looperPc = "top"
  /\ ~looperCtx
  /\ LooperBranch(buys, sells) = "addNewSell"
  /\ nbuys' = Len(buys)
  /\ nsells' = Len(sells)
  /\ sells' = Append(sells, SubLimiter("sell", Len(sells), sellPoint))
  /\ looperPc' = "sellSave"
  /\ LooperObserved("call", "none", NoTicker)
  /\ UNCHANGED <<outsideLooper, buys, gateP, looperCtx, looperDb>>

\* addNewSell saves; a failed save takes the new limiter off again.
AddNewSellSave ==
  /\ looperPc = "sellSave"
  /\ \E ok \in BOOLEAN :
       /\ sells' = IF ok THEN sells ELSE RollBack(sells)
       /\ looperDb' = IF ok THEN LooperState(buys, sells) ELSE looperDb
       /\ looperPc' = Continue(IF ok THEN "nil" ELSE "err")
       /\ LooperObserved("addNewSell", IF ok THEN "nil" ELSE "err", NoTicker)
  /\ UNCHANGED <<outsideLooper, buys, nbuys, nsells, gateP, looperCtx>>

\* The list with its last limiter at pending q, and the database after that
\* limiter saved itself (when it did).
WithLast(list, q) == [list EXCEPT ![Len(list)].pending = q]
Flushed(db, field, n, q, saved) ==
  IF saved /\ n <= Len(db[field])
  THEN [db EXCEPT ![field][n].pending = q]
  ELSE db

\* The loop body runs the last buy limiter.
RunLastBuy ==
  /\ looperPc = "top"
  /\ ~looperCtx
  /\ LooperBranch(buys, sells) = "runBuy"
  /\ nbuys' = Len(buys)
  /\ nsells' = Len(sells)
  /\ \E c \in BOOLEAN, saved \in BOOLEAN :
     \E o \in RunOutcomes(Last(buys).pending, c) :
       /\ looperCtx' = c
       /\ buys' = WithLast(buys, o[1])
       /\ looperDb' = Flushed(looperDb, "buys", Len(buys), o[1], saved)
       /\ looperPc' = Continue(o[2])
       /\ LooperObserved("runBuy", o[2], NoTicker)
  /\ UNCHANGED <<outsideLooper, sells, gateP>>

\* The loop body runs the last sell limiter.
RunLastSell ==
  /\ looperPc = "top"
  /\ ~looperCtx
  /\ LooperBranch(buys, sells) = "runSell"
  /\ nbuys' = Len(buys)
  /\ nsells' = Len(sells)
  /\ \E c \in BOOLEAN, saved \in BOOLEAN :
     \E o \in RunOutcomes(Last(sells).pending, c) :
       /\ looperCtx' = c
       /\ sells' = WithLast(sells, o[1])
       /\ looperDb' = Flushed(looperDb, "sells", Len(sells), o[1], saved)
       /\ looperPc' = Continue(o[2])
       /\ LooperObserved("runSell", o[2], NoTicker)
  /\ UNCHANGED <<outsideLooper, buys, gateP>>

\* The Looper's context is canceled.
LooperCancel ==
  /\ looperPc \in {"top", "buyWait", "buySave", "sellSave"}
  /\ ~looperCtx
  /\ looperCtx' = TRUE
  /\ LooperObserved("none", "none", NoTicker)
  /\ UNCHANGED <<outsideLooper, buys, sells, looperPc, nbuys, nsells,
                 gateP, looperDb>>

\* After Run returned the process restarts: looper.Load where a state was
\* saved, looper.New where none was, and Run again under a new context.
LooperRestart ==
  /\ looperPc = "returned"
  /\ buys' = looperDb.buys
  /\ sells' = looperDb.sells
  /\ looperPc' = "top"
  /\ looperCtx' = FALSE
  /\ LooperObserved("Load", IF looperDb.saved THEN "nil" ELSE "err", NoTicker)
  /\ UNCHANGED <<outsideLooper, nbuys, nsells, gateP, looperDb>>

LooperNext ==
  \/ LooperReturn
  \/ AddNewBuyCall
  \/ AddNewBuyTicker
  \/ AddNewBuyCtxDone
  \/ AddNewBuySave
  \/ AddNewSellCall
  \/ AddNewSellSave
  \/ RunLastBuy
  \/ RunLastSell
  \/ LooperCancel
  \/ LooperRestart

LooperSpec == LooperInit /\ [][LooperNext]_vars


\* ------------------------------------------------------- the runtime lock
\* Run, Refresh and Fix each lock v.runtimeLock on entry and defer its
\* unlock; the lock is a mutex.
Ops == {"Run", "Refresh", "Fix"}

\* What each operation can return.
Results(op) ==
  IF op = "Run" THEN {"nil", "err", "cause"}
  ELSE IF op = "Refresh" THEN {"nil", "err"}
  ELSE {"nil"}

\* The lock after its holder returned r: the deferred Unlock runs on every
\* return.
UnlockOnSuccess(holder, r) == IF r = "nil" THEN NoCaller ELSE holder
DeferredUnlock(holder, r) == NoCaller

LockInit == RunIdle /\ SaveLoadIdle /\ LooperAt("idle") /\ SummaryIdle /\ LockIdle

\* A caller calls an operation and arrives at v.runtimeLock.Lock().
LockCall(c, op) ==
  /\ callers[c].at = "out"
  /\ callers' = [callers EXCEPT ![c] = [op |-> op, at |-> "blocked"]]
  /\ Observed("call", "none")
  /\ UNCHANGED <<outsideLock, runtimeLock>>

\* Lock() returns to a caller once the lock is free.
LockAcquire(c) ==
  /\ callers[c].at = "blocked"
  /\ runtimeLock = NoCaller
  /\ runtimeLock' = c
  /\ callers' = [callers EXCEPT ![c].at = "in"]
  /\ Observed("Lock", "none")
  /\ UNCHANGED outsideLock

\* The operation returns, by any of its return paths.
LockReturn(c) ==
  /\ callers[c].at = "in"
  /\ \E r \in Results(callers[c].op) :
       /\ runtimeLock' = DeferredUnlock(runtimeLock, r)
       /\ Observed(callers[c].op, r)
  /\ callers' = [callers EXCEPT ![c] = [op |-> "none", at |-> "out"]]
  /\ UNCHANGED outsideLock

LockNext ==
  \/ \E c \in Callers, op \in Ops : LockCall(c, op)
  \/ \E c \in Callers : LockAcquire(c)
  \/ \E c \in Callers : LockReturn(c)

LockSpec == LockInit /\ [][LockNext]_vars

\* ------------------------------------------------------------ the summary
\* Amounts are whole numbers of the smallest unit; a derived metric is the
\* exact quotient num/den, as the arbitrary-precision decimal holds it.
MaxAmount == 1      \* each fee and value of a Summary ranges over 0..MaxAmount
MaxDays == 1        \* a time period lasts 0..MaxDays days

Amounts == 0..MaxAmount
TimePeriods ==
  {[isZero |-> TRUE, hours |-> 0]} \cup
  {[isZero |-> FALSE, hours |-> 24 * d] : d \in 0..MaxDays}

Dec(n) == [num |-> n, den |-> 1]
DecZero == Dec(0)
DecIsZero(x) == x.num = 0
DecMul(x, n) == [num |-> x.num * n, den |-> x.den]
\* x / y for y not zero, with a positive denominator.
DecDiv(x, y) ==
  IF y.num > 0 THEN [num |-> x.num * y.den, den |-> x.den * y.num]
  ELSE [num |-> 0 - (x.num * y.den), den |-> 0 - (x.den * y.num)]

FeePct(s) ==
  LET divisor == s.SoldValue + s.BoughtValue
      totalFees == s.SoldFees + s.BoughtFees
  IN IF divisor = 0 THEN DecZero
     ELSE DecDiv(Dec(totalFees * 100), Dec(divisor))

Profit(s) ==
  LET svalue == s.SoldValue - s.OversoldValue
      bvalue == s.BoughtValue - s.UnsoldValue
      sfees == s.SoldFees - s.OversoldFees
      bfees == s.BoughtFees - s.UnsoldFees
  IN ((svalue - bvalue) - bfees) - sfees

NumDays(s) ==
  IF s.TimePeriod.isZero THEN DecZero
  ELSE [num |-> s.TimePeriod.hours, den |-> 24]

ProfitPerDay(s) ==
  LET ndays == NumDays(s)
  IN IF DecIsZero(ndays) THEN Dec(Profit(s))
     ELSE DecDiv(Dec(Profit(s)), ndays)

ReturnRate(s) ==
  IF s.Budget = 0 THEN DecZero
  ELSE DecDiv(Dec(Profit(s) * 100), Dec(s.Budget))

AnnualReturnRate(s) ==
  IF s.Budget = 0 THEN DecZero
  ELSE LET perYear == DecMul(ProfitPerDay(s), 365)
       IN DecDiv(DecMul(perYear, 100), Dec(s.Budget))

Metrics == {"FeePct", "ProfitPerDay", "ReturnRate", "AnnualReturnRate"}
MetricOf(name, s) ==
  IF name = "FeePct" THEN FeePct(s)
  ELSE IF name = "ProfitPerDay" THEN ProfitPerDay(s)
  ELSE IF name = "ReturnRate" THEN ReturnRate(s)
  ELSE AnnualReturnRate(s)

\* Any summary within the bounds, the unsold part within what was bought
\* and the oversold part within what was sold.
SummaryInit ==
  /\ RunIdle
  /\ SaveLoadIdle
  /\ LooperAt("idle")
  /\ LockIdle
  /\ summary \in [TimePeriod : TimePeriods, Budget : Amounts,
                  SoldFees : Amounts, SoldValue : Amounts,
                  BoughtFees : Amounts, BoughtValue : Amounts,
                  UnsoldFees : Amounts, UnsoldValue : Amounts,
                  OversoldFees : Amounts, OversoldValue : Amounts]
  /\ summary.OversoldValue <= summary.SoldValue
  /\ summary.OversoldFees <= summary.SoldFees
  /\ summary.UnsoldValue <= summary.BoughtValue
  /\ summary.UnsoldFees <= summary.BoughtFees
  /\ metric = NoMetric

\* A derived metric of the summary is computed.
SummaryMetric ==
  /\ \E name \in Metrics : metric' = [name |-> name, value |-> MetricOf(name, summary)]
  /\ Observed("metric", "nil")
  /\ UNCHANGED <<outsideSummary, summary>>

SummaryNext == SummaryMetric

SummarySpec == SummaryInit /\ [][SummaryNext]_vars

TypeOK ==
  /\ pc \in {"idle", "loop", "returned"}
  /\ activeOrderID \in {NoOrder} \cup DOMAIN orderMap
  /\ dirty \in 0..MaxDirty
  /\ DOMAIN orderMap \subseteq 1..Len(exOrders)
  /\ pc = "loop" => PendingSize(orderMap) # 0

\* ------------------------------------------------------------- the claims
Range(seq) == {seq[i] : i \in 1..Len(seq)}

\* The LimitBuy and LimitSell calls in a log of calls.
Creates(cs) == {i \in 1..Len(cs) : cs[i] \in {"LimitSell", "LimitBuy"}}

\* Readiness and crossing as the specification words them.
Ready(t) == (side = "SELL" /\ t > PointCancel) \/ (side = "BUY" /\ t < PointCancel)
Crossed(t) == (side = "SELL" /\ t <= PointCancel) \/ (side = "BUY" /\ t >= PointCancel)

\* C1: at most one order in order_map has done=false, in every state.
C1_AtMostOneLive == Cardinality(Live(orderMap)) <= 1

\* C2: pending = point.size - sum of filled_size over order_map is >= 0 in
\* every state (every order fills at most its ordered size).
C2_PendingNonNegative ==
  (\A id \in 1..Len(exOrders) : exOrders[id].filled <= exOrders[id].size)
    => Pending(orderMap) >= 0

\* C3: when ctx is canceled while a partially filled order is active and Run
\* cancels it and saves, the saved state reloaded with Load has the pending of
\* the in-memory limiter, records the partially filled order, and holds no
\* order with done=false.
C3_ShutdownSaveReloadsClean ==
  [][(/\ evt' = "ctx" /\ ret' = "cause"
      /\ activeOrderID \in DOMAIN orderMap
      /\ orderMap[activeOrderID].filled > 0
      /\ store' = SaveState(idgenOffset', clientServerMap', orderMap'))
     => LET L == Load(store')
        IN /\ Pending(L.orderMap) = Pending(orderMap')
           /\ activeOrderID \in DOMAIN L.orderMap
           /\ L.orderMap[activeOrderID].filled = orderMap[activeOrderID].filled
           /\ Live(L.orderMap) = {}]_vars

\* C4: whenever Run observes the cancellation of ctx in its loop, it issues
\* Cancel for the active order (if any), then saves, then returns the
\* cancellation cause: a Save is attempted before Run returns.
C4_CancelSaveReturnCause ==
  [][evt' = "ctx"
     => /\ ret' = "cause"
        /\ calls' = IF activeOrderID # NoOrder
                    THEN <<"Cancel", "Save">> ELSE <<"Save">>]_vars

\* In a run without failures pending never grows: once it is negative the run
\* cannot return complete.
PendingNeverGrows == [][Pending(orderMap') <= Pending(orderMap)]_vars

UsedOffsets == {exOrders[i].cid : i \in 1..Len(exOrders)}

\* C6: an IdGen offset that was used for an order the exchange accepted is
\* never handed out again, in the same process or after a reload: the offset
\* a create takes (the generator's offset before the step) is not one of them.
C6_OffsetNeverReused ==
  [][Creates(calls') # {} => idgenOffset \notin UsedOffsets]_vars

\* C7: if LimitBuy/LimitSell fails inside create, the IdGen offset is what it
\* was before the call, order_map has no new entry, and Run returns the error.
C7_FailedCreateReverts ==
  [][(Creates(calls') # {} /\ Len(exOrders') = Len(exOrders))
     => /\ idgenOffset' = idgenOffset
        /\ orderMap' = orderMap
        /\ ret' = "err_create"
        /\ pc' = "returned"]_vars

C7_Witness == ret = "err_create" /\ idgenOffset > 0 /\ pc = "returned"

\* The orders of a start that passed its reconcile.
LiveAfterReconcile(om, r) == IF r = "err_fetch" THEN {} ELSE Live(om)

\* C8 as stated: if order_map holds more than one order with done=false after
\* the start-up reconcile, Run returns the "found N live orders" error and
\* calls nothing but the reconcile's Get.
C8_TwoLiveIsFatal ==
  [][(evt' = "start" /\ Cardinality(LiveAfterReconcile(orderMap', ret')) > 1)
     => /\ ret' = "err_live"
        /\ Range(calls') \subseteq {"Get"}
        /\ exOrders' = exOrders]_vars

\* C8 amended: ... and pending is not zero after the reconcile, then Run
\* returns the "found N live orders" error and calls nothing but the
\* reconcile's Get; with pending zero Run returns complete before it counts
\* the live orders.
C8_TwoLiveIsFatalWhilePending ==
  [][(evt' = "start" /\ Cardinality(LiveAfterReconcile(orderMap', ret')) > 1)
     => IF Pending(orderMap') # 0
        THEN /\ ret' = "err_live"
             /\ Range(calls') \subseteq {"Get"}
             /\ exOrders' = exOrders
             /\ pc' = "returned"
        ELSE /\ ret' = "nil"
             /\ Range(calls') \subseteq {"Get", "Save"}
             /\ exOrders' = exOrders]_vars

C8_Witness ==
  /\ evt = "start"
  /\ ret = "err_live"
  /\ Cardinality(Live(orderMap)) > 1
  /\ calls = <<"Get", "Get">>

\* The order a step placed, if it placed one, is one order at point.price on
\* the limiter's side.
PlacedAtPoint ==
  Len(exOrders') # Len(exOrders)
    => /\ Len(exOrders') = Len(exOrders) + 1
       /\ exOrders'[Len(exOrders')].price = pointPrice
       /\ exOrders'[Len(exOrders')].side = side

SizeLimitCancel ==
  /\ activeOrderID # NoOrder
  /\ ~holdOpt
  /\ lastSizeLimit # sizeLimitOpt

C10_CrossedCancels ==
  [][(evt' = "ticker" /\ activeOrderID # NoOrder /\ Crossed(ticker'))
     => /\ calls' = <<"Cancel">>
        /\ activeOrderID' = NoOrder
        /\ Pending(orderMap') = Pending(orderMap)
        /\ pc' = "loop"]_vars

\* C10 amended: ... Run issues Cancel for that order and nothing else, and
\* leaves pending unchanged; if the Cancel succeeds Run is left with no active
\* order and keeps running, and if it fails Run returns that error.
C10_CrossedCancelsOrReturns ==
  [][(evt' = "ticker" /\ activeOrderID # NoOrder /\ Crossed(ticker'))
     => /\ calls' = <<"Cancel">>
        /\ Pending(orderMap') = Pending(orderMap)
        /\ Len(exOrders') = Len(exOrders)
        /\ ret' \in {"none", "err_cancel"}
        /\ ret' = "none" => /\ activeOrderID' = NoOrder
                            /\ pc' = "loop"
                            /\ exOrders'[activeOrderID].status # "open"
        /\ ret' = "err_cancel" => /\ pc' = "returned"
                                  /\ exOrders' = exOrders]_vars

C10_Witness ==
  /\ evt = "ticker"
  /\ Crossed(ticker)
  /\ calls = <<"Cancel">>
  /\ ret = "none"
  /\ activeOrderID = NoOrder
  /\ pc = "loop"
  /\ \E id \in DOMAIN orderMap : exOrders[id].status = "canceling"

Min(a, b) == IF a < b THEN a ELSE b
Max(a, b) == IF a > b THEN a ELSE b

\* The order size as the specification gives it:
\* min(pending_size, size_limit_option, max(base_min_size, pending_size)).
SpecOrderSize(pending, limit, min) == Min(Min(pending, limit), Max(min, pending))

\* C11: the size of every order create places equals
\* min(pending_size, size_limit_option, max(base_min_size, pending_size)).
C11_OrderSizeIsSpecFormula ==
  [][Len(exOrders') > Len(exOrders)
     => exOrders'[Len(exOrders')].size =
          SpecOrderSize(PendingSize(orderMap), sizeLimitOpt, baseMinSize)]_vars

\* C12: every order_id of order_map is the value of some client_order_id
\* entry of client_server_map, in every state.
C12_OrderHasClientEntry ==
  \A id \in DOMAIN orderMap :
    \E c \in DOMAIN clientServerMap : clientServerMap[c] = id

C14_BuysLeadSellsByAtMostOne == Len(buys) - Len(sells) \in {0, 1}

C14_Witness ==
  /\ Len(buys) = 2
  /\ Len(sells) = 1
  /\ looperPc = "top"
  /\ evt = "addNewBuy"
  /\ ret = "nil"

\* C15: addNewBuy appends a buy limiter only on receiving a ticker strictly
\* above buy_point.price, a ticker at or below that price leaves it waiting
\* with nothing appended, and addNewSell appends on being called, with no
\* ticker.
C15_BuyGateStrictSellNoGate ==
  [][/\ (evt' # "Load" /\ Len(buys') > Len(buys))
          => (looperPc = "buyWait" /\ evt' = "ticker" /\ ticker' > buyPoint.Price)
     /\ (looperPc = "buyWait" /\ evt' = "ticker" /\ ticker' <= buyPoint.Price)
          => (buys' = buys /\ looperPc' = "buyWait")
     /\ (evt' # "Load" /\ Len(sells') > Len(sells))
          => (looperPc = "top" /\ evt' = "call" /\ ticker' = NoTicker)]_vars

C15_Witness ==
  /\ looperPc = "buySave"
  /\ evt = "ticker"
  /\ ticker > buyPoint.Price
  /\ Len(buys) = 2
  /\ Len(sells) = 1

\* C16: a step that appends to buys or sells leaves the looper about to
\* save, the save that succeeds stores the lists as they are, and when the
\* save fails addNewBuy/addNewSell returns the error with both lists as long
\* as at the call and no limiter in them changed.
C16_AppendSavedOrRolledBack ==
  [][/\ (evt' # "Load" /\ (Len(buys') > Len(buys) \/ Len(sells') > Len(sells)))
          => looperPc' \in {"buySave", "sellSave"}
     /\ (looperPc \in {"buySave", "sellSave"} /\ looperPc' # looperPc)
          => /\ evt' \in {"addNewBuy", "addNewSell"}
             /\ ret' = "nil" => looperDb' = LooperState(buys', sells')
     /\ (evt' \in {"addNewBuy", "addNewSell"} /\ ret' # "nil")
          => /\ ret' \in {"err", "cause"}
             /\ Len(buys') = nbuys
             /\ Len(sells') = nsells
             /\ looperDb' = looperDb
     /\ (looperPc' \in {"buyWait", "buySave", "sellSave"}
           \/ evt' \in {"addNewBuy", "addNewSell"})
          => /\ \A i \in 1..Min(Len(buys), Len(buys')) : buys'[i] = buys[i]
             /\ \A i \in 1..Min(Len(sells), Len(sells')) : sells'[i] = sells[i]]_vars

C16_Witness ==
  /\ evt = "addNewBuy"
  /\ ret = "err"
  /\ Len(buys) = 1
  /\ Len(sells) = 1
  /\ nbuys = 1
  /\ looperDb = LooperState(buys, sells)

\* C17: Looper.Run returns only with its context canceled, and returns the
\* cause: no error of a sub-limiter's Run, of addNewBuy/addNewSell or of a
\* save makes it return while ctx is live.
C17_ReturnsOnlyOnCancel ==
  [][(looperPc' = "returned" /\ looperPc # "returned")
       => (looperCtx /\ ret' = "cause" /\ evt' = "Looper.Run")]_vars

C17_Witness ==
  /\ looperPc = "returned"
  /\ ret = "cause"
  /\ looperCtx
  /\ Len(buys) = 1
  /\ Len(sells) = 1
  /\ looperDb.saved

\* C18: at most one caller is inside Run, Refresh or Fix of a limiter at a
\* time; a caller is inside exactly while it holds the runtime lock, so the
\* others stay blocked until it returns, by whichever return path.
C18_RunRefreshFixExclude ==
  /\ Cardinality({c \in Callers : callers[c].at = "in"}) <= 1
  /\ \A c \in Callers : callers[c].at = "in" <=> runtimeLock = c

C18_Witness ==
  /\ evt = "Lock"
  /\ \E c, d \in Callers :
       /\ callers[c] = [op |-> "Refresh", at |-> "in"]
       /\ callers[d] = [op |-> "Run", at |-> "blocked"]
       /\ runtimeLock = c

\* The divisor of each dividing metric.
ZeroDivisor(name, s) ==
  IF name = "FeePct" THEN s.SoldValue + s.BoughtValue = 0
  ELSE IF name = "ProfitPerDay" THEN DecIsZero(NumDays(s))
  ELSE s.Budget = 0

\* C19: FeePct, ProfitPerDay, ReturnRate and AnnualReturnRate each return
\* zero when their divisor (sold + bought value, number of days, budget) is
\* zero.
C19_ZeroDivisorGivesZero ==
  (metric.name \in Metrics /\ ZeroDivisor(metric.name, summary))
    => DecIsZero(metric.value)

\* C20 as stated: on every ticker handled while the hold option is set, Run
\* cancels the active order if there is one (the order is no longer open at
\* the exchange), is left with no active order, and creates no order,
\* whatever the ticker price.
C20_HoldCancelsAndCreatesNothing ==
  [][(evt' = "ticker" /\ holdOpt)
     => /\ Creates(calls') = {}
        /\ activeOrderID # NoOrder
             => /\ calls' = <<"Cancel">>
                /\ exOrders'[activeOrderID].status # "open"
        /\ activeOrderID' = NoOrder]_vars

\* C20 amended: on every ticker handled while the hold option is set, Run
\* creates no order, whatever the ticker price; with no active order it
\* calls nothing and goes on; with an active order it issues Cancel for it
\* and nothing else, and if the Cancel succeeds Run is left with no active
\* order and keeps running, and if it fails Run returns that error.
C20_HoldCancelsOrReturns ==
  [][(evt' = "ticker" /\ holdOpt)
     => /\ Creates(calls') = {}
        /\ Len(exOrders') = Len(exOrders)
        /\ activeOrderID = NoOrder
             => (calls' = << >> /\ ret' = "none" /\ exOrders' = exOrders)
        /\ activeOrderID # NoOrder
             => (calls' = <<"Cancel">> /\ ret' \in {"none", "err_cancel"})
        /\ ret' = "none" => /\ activeOrderID' = NoOrder
                            /\ pc' = "loop"
                            /\ activeOrderID # NoOrder
                                 => exOrders'[activeOrderID].status # "open"
        /\ ret' = "err_cancel" => /\ pc' = "returned"
                                  /\ exOrders' = exOrders]_vars

C20_Witness ==
  /\ evt = "ticker"
  /\ holdOpt
  /\ Ready(ticker)
  /\ calls = <<"Cancel">>
  /\ ret = "none"
  /\ activeOrderID = NoOrder
  /\ pc = "loop"
  /\ Pending(orderMap) > 0
  /\ \E id \in DOMAIN orderMap : exOrders[id].status = "canceling"

\* The first call of a log of calls.
FirstCall(cs) == IF cs = << >> THEN "none" ELSE cs[1]

\* The size limit in force differs from the one the run loop recorded while
\* an order is active.
SizeLimitChanged == activeOrderID # NoOrder /\ lastSizeLimit # sizeLimitOpt

\* The last order the exchange holds is new, placed at the point, sized
\* from the pending size and the size limit now in force, and active.
ReplacedUnderLimit ==
  /\ Len(exOrders') = Len(exOrders) + 1
  /\ exOrders'[Len(exOrders')].price = pointPrice
  /\ exOrders'[Len(exOrders')].side = side
  /\ exOrders'[Len(exOrders')].size =
       Max(Min(Pending(orderMap), sizeLimitOpt), baseMinSize)
  /\ activeOrderID' = Len(exOrders')
  /\ lastSizeLimit' = sizeLimitOpt

\* C21 as stated: on a ticker that finds the size limit changed while an
\* order is active, Run cancels that order (it is no longer open at the
\* exchange), and if the ticker is ready it creates on the same ticker a
\* replacement sized with the new limit.
C21_LimitChangeReplaces ==
  [][(evt' = "ticker" /\ SizeLimitChanged)
     => /\ FirstCall(calls') = "Cancel"
        /\ exOrders'[activeOrderID].status # "open"
        /\ Ready(ticker') => (Cardinality(Creates(calls')) = 1 /\ ReplacedUnderLimit)]_vars

\* C21 amended: with hold unset, on a ticker that finds the size limit
\* changed while an order is active, Run first issues Cancel for that order,
\* filled in part or not.  If the Cancel fails Run returns that error and
\* nothing else is called.  If it succeeds the order is no longer open;
\* then on a ready ticker Run calls create once: accepted, the replacement is
\* the active order, of size min(pending, new limit) raised to the base
\* minimum; refused, Run returns that error.  On a ticker that is not ready
\* Run creates nothing and is left with no active order.
C21_LimitChangeCancelsThenReplaces ==
  [][(evt' = "ticker" /\ SizeLimitChanged /\ ~holdOpt)
     => /\ FirstCall(calls') = "Cancel"
        /\ ret' = "err_cancel" => (calls' = <<"Cancel">> /\ exOrders' = exOrders)
        /\ ret' # "err_cancel"
             => /\ exOrders'[activeOrderID].status # "open"
                /\ Cardinality(Creates(calls')) = (IF Ready(ticker') THEN 1 ELSE 0)
                /\ ret' \in {"none", "err_create"}
                /\ (Ready(ticker') /\ ret' = "none") => ReplacedUnderLimit
                /\ (Ready(ticker') /\ ret' = "err_create")
                     => (Len(exOrders') = Len(exOrders) /\ pc' = "returned")
                /\ ~Ready(ticker')
                     => (ret' = "none" /\ activeOrderID' = NoOrder
                         /\ Len(exOrders') = Len(exOrders))]_vars

C21_Witness ==
  /\ evt = "ticker"
  /\ ret = "none"
  /\ Len(calls) = 2
  /\ calls[1] = "Cancel"
  /\ Creates(calls) = {2}
  /\ activeOrderID = Len(exOrders)
  /\ lastSizeLimit = sizeLimitOpt
  /\ exOrders[activeOrderID].size = sizeLimitOpt
  /\ \E id \in DOMAIN orderMap :
       /\ id # activeOrderID
       /\ exOrders[id].status = "canceling"
       /\ exOrders[id].filled > 0
       /\ exOrders[id].size # sizeLimitOpt

\* The calls named `c` in a log of calls.
CallsOf(cs, c) == {i \in 1..Len(cs) : cs[i] = c}

\* C22: when the start-up reconcile succeeds and leaves pending zero, Run
\* returns nil with no subscription, create or cancel call, and if the
\* reconcile updated an order it saves, so that the durable state reloads
\* with pending zero.
C22_CompleteAtStartPersists ==
  [][(evt' = "start" /\ ret' # "err_fetch" /\ Pending(orderMap') = 0)
     => /\ ret' = "nil"
        /\ Range(calls') \subseteq {"Get", "Save"}
        /\ CallsOf(calls', "Get") # {}
             => /\ CallsOf(calls', "Save") # {}
                /\ Pending(Load(store').orderMap) = 0]_vars

\* C23: on a flush tick Run saves iff dirty > 0; the counter goes to 0 when
\* the save wrote the state and stays as it was when the save failed (so the
\* next flush tick saves again), and Run keeps running in either case.
C23_FlushSavesIffDirty ==
  [][evt' = "flush"
     => /\ calls' = (IF dirty > 0 THEN <<"Save">> ELSE << >>)
        /\ ret' = "none"
        /\ pc' = "loop"
        /\ dirty = 0 => (dirty' = 0 /\ store' = store)
        /\ dirty > 0
             => \/ dirty' = 0 /\ store' = SaveState(idgenOffset, clientServerMap, orderMap)
                \/ dirty' = dirty /\ store' = store]_vars

C23_Witness ==
  /\ evt = "flush"
  /\ calls = <<"Save">>
  /\ dirty > 0
  /\ pc = "loop"
  /\ store # SaveState(idgenOffset, clientServerMap, orderMap)
  /\ activeOrderID # NoOrder

\* The limiters of `list` other than the last are the same in `list2`.
SameButLast(list, list2) ==
  /\ Len(list2) = Len(list)
  /\ \A i \in 1..(Len(list) - 1) : list2[i] = list[i]

\* C24: Looper.Run appends a sell limiter only when the last buy has pending
\* 0 and there are fewer sells than buys; it appends a buy limiter only when
\* there are no buys, or as many sells as buys with the last buy and the
\* last sell both at pending 0; it runs only the last buy or the last sell,
\* and only one whose pending is not zero.
C24_AppendsAndRunsInTurn ==
  [][/\ (evt' # "Load" /\ Len(sells') > Len(sells))
          => /\ Len(buys) > 0
             /\ Last(buys).pending = 0
             /\ Len(sells) < Len(buys)
             /\ sells' = Append(sells, SubLimiter("sell", Len(sells), sellPoint))
     /\ (evt' # "Load" /\ Len(buys') > Len(buys))
          => /\ \/ Len(buys) = 0
                \/ /\ Len(sells) = Len(buys)
                   /\ Last(buys).pending = 0
                   /\ Last(sells).pending = 0
             /\ buys' = Append(buys, SubLimiter("buy", Len(buys), buyPoint))
     /\ evt' = "runBuy"
          => /\ Len(buys) > 0
             /\ Last(buys).pending # 0
             /\ SameButLast(buys, buys')
             /\ sells' = sells
     /\ evt' = "runSell"
          => /\ Len(sells) > 0
             /\ Last(sells).pending # 0
             /\ SameButLast(sells, sells')
             /\ buys' = buys
     /\ (evt' \notin {"runBuy", "runSell", "Load"})
          => /\ \A i \in 1..Min(Len(buys), Len(buys')) : buys'[i] = buys[i]
             /\ \A i \in 1..Min(Len(sells), Len(sells')) : sells'[i] = sells[i]]_vars

C24_Witness ==
  /\ looperPc = "sellSave"
  /\ evt = "call"
  /\ Len(buys) = 2
  /\ Len(sells) = 2
  /\ buys[1].pending = 0
  /\ sells[1].pending = 0
  /\ buys[2].pending = 0
  /\ sells[2].pending = LooperSize

\* C25: when the save Run performs on seeing ctx canceled fails (the durable
\* state is not the in-memory one afterwards), Run returns the persistence
\* error, not the cancellation cause.
C25_ShutdownSaveFailureSurfaces ==
  [][(/\ evt' = "ctx"
      /\ CallsOf(calls', "Save") # {}
      /\ store' # SaveState(idgenOffset', clientServerMap', orderMap'))
     => ret' = "err_save"]_vars

\* C26: when Run has just returned nil, every order in order_map has
\* done=true.
C26_CompleteLeavesNoLiveOrder ==
  (evt \in {"start", "update"} /\ ret = "nil")
    => \A id \in DOMAIN orderMap : orderMap[id].done

\* C27: an order created under the size limit in force is not canceled for
\* the size-limit reason: on the ticker right after the ticker that created
\* the active order (the option cannot have changed in between), with hold
\* unset and the ticker not at or across the cancel threshold, Run issues no
\* Cancel.
C27_NoCancelUnderLimitInForce ==
  [][(/\ evt = "ticker" /\ ret = "none" /\ Creates(calls) # {}
      /\ activeOrderID # NoOrder
      /\ evt' = "ticker" /\ ~holdOpt /\ ~Crossed(ticker'))
     => CallsOf(calls', "Cancel") = {}]_vars

\* C28: a step of Run that handles the update of an order whose id is not a
\* key of order_map leaves order_map, client_server_map, the pending size and
\* the active order id as they were.
C28_UnknownUpdateChangesNothing ==
  [][(\E id \in OrderIDs \ DOMAIN orderMap : OrderUpdateOf(id, BOOLEAN))
     => /\ orderMap' = orderMap
        /\ clientServerMap' = clientServerMap
        /\ PendingSize(orderMap') = PendingSize(orderMap)
        /\ activeOrderID' = activeOrderID]_vars

\* Run has handled an update while order_map was empty and the exchange held
\* an order: the update was of an id order_map does not have.
C28_Witness ==
  /\ evt = "update"
  /\ pc = "loop"
  /\ DOMAIN orderMap = {}
  /\ Len(exOrders) >= 1
====
